---------------------------- MODULE Spec2Model ----------------------------
(***************************************************************************)
(* Backrooms survival: the seeded generator (mulberry32, generateLayout,   *)
(* placeThings), the hound pursuit step and the turn engine (step, drink,  *)
(* restart) of src/src/App.jsx, as a state machine.                        *)
(*                                                                         *)
(* Every handler runs to completion together with the render and the      *)
(* effects it triggers (React flushes updates made in a keydown or click   *)
(* handler before the next event is delivered), so one action is one       *)
(* handled input.                                                          *)
(***************************************************************************)
EXTENDS Integers, Sequences, FiniteSets, TLC

(***************************************************************************)
(* Bounds of the model.  The program uses W = 46, H = 30 and seeds below   *)
(* 1e9; the model keeps the code and shrinks the world.                    *)
(***************************************************************************)
W == 4
H == 4
MaxSeed == 1
MaxTurns == 6
LongTurns == 34
CallTurns == 3
SipBelow == 66
GenW == 20
GenH == 20
MaxGenSeed == 7

Seeds == 0..MaxSeed

(***************************************************************************)
(* 32-bit unsigned integers as <<hi, lo>> pairs of 16-bit halves.          *)
(***************************************************************************)
\* x, evaluated once, handed to F
Bind(x, F(_)) == CHOOSE r \in {F(v) : v \in {x}} : TRUE

B16 == 256 * 256

U32(hi, lo) == <<hi, lo>>

RECURSIVE Xor16(_, _, _)
Xor16(a, b, n) ==
  IF n = 0 THEN 0
  ELSE (((a % 2) + (b % 2)) % 2) + 2 * Xor16(a \div 2, b \div 2, n - 1)

RECURSIVE Or16(_, _, _)
Or16(a, b, n) ==
  IF n = 0 THEN 0
  ELSE (IF (a % 2) = 1 \/ (b % 2) = 1 THEN 1 ELSE 0) + 2 * Or16(a \div 2, b \div 2, n - 1)

Xor32(a, b) == U32(Xor16(a[1], b[1], 16), Xor16(a[2], b[2], 16))

\* a | c for a small constant c (c < 65536)
OrLow(a, c) == U32(a[1], Or16(a[2], c, 16))

Add32(a, b) ==
  LET lo == a[2] + b[2]
  IN  U32((a[1] + b[1] + (lo \div B16)) % B16, lo % B16)

RECURSIVE TwoTo(_)
TwoTo(k) == IF k = 0 THEN 1 ELSE 2 * TwoTo(k - 1)

\* a >>> k for 0 < k < 16
Shr32(a, k) ==
  U32(a[1] \div TwoTo(k), ((a[1] % TwoTo(k)) * TwoTo(16 - k)) + (a[2] \div TwoTo(k)))

\* x * y mod 2^16 for 16-bit x, y without leaving 31 bits
MulMod16(x, y) == (((((x \div 256) * y) % 256) * 256) + ((x % 256) * y)) % B16

\* Math.imul: the low 32 bits of the product
Imul(a, b) ==
  LET a1 == a[2] \div 256
      a0 == a[2] % 256
      b1 == b[2] \div 256
      b0 == b[2] % 256
      mid == (a1 * b0) + (a0 * b1)
      lowraw == (a0 * b0) + ((mid % 256) * 256)
      phi == (a1 * b1) + (mid \div 256) + (lowraw \div B16)
  IN  U32((phi + MulMod16(a[1], b[2]) + MulMod16(a[2], b[1])) % B16, lowraw % B16)


(***************************************************************************)
(* mulberry32.  The closure's state t starts at seed >>> 0 and every call  *)
(* adds 0x6D2B79F5 to it, so after n calls t = seed + n * 0x6D2B79F5       *)
(* (mod 2^32: the code keeps t as a double that is never truncated, and    *)
(* its bit operators read it modulo 2^32).  A stream is therefore kept as  *)
(* [seed, n], n the number of calls made so far; a call returns the 32-bit *)
(* numerator v of the draw v / 2^32.                                       *)
(***************************************************************************)
mulberry32(seed) == [seed |-> seed, n |-> 0]

\* the value of t during call number n
tAt(seed, n) ==
  Add32(U32(seed \div B16, seed % B16), Imul(U32(n \div B16, n % B16), U32(27947, 31221)))

\* r = Math.imul(t ^ (t >>> 15), 1 | t)
rngMix(t1) == Imul(Xor32(t1, Shr32(t1, 15)), OrLow(t1, 1))

\* the Math.imul(r ^ (r >>> 7), 61 | r) of the second line
rngMul(r1) == Imul(Xor32(r1, Shr32(r1, 7)), OrLow(r1, 61))

\* (r ^ (r >>> 14)) >>> 0
rngOut(r2) == Xor32(r2, Shr32(r2, 14))

\* one call of the closure: the numerator drawn and the advanced stream
rngCall(rng) ==
  Bind(rngMix(tAt(rng.seed, rng.n + 1)), LAMBDA r1 :
  Bind(rngMul(r1), LAMBDA rm :
    [v |-> rngOut(Xor32(r1, Add32(r1, rm))), t |-> [seed |-> rng.seed, n |-> rng.n + 1]]))

\* Math.floor((v / 2^32) * n) for an integer n
FloorMul(v, n) ==
  LET m == IF n < 0 THEN -n ELSE n
      a == (v[1] * m) + ((v[2] * m) \div B16)
      b == (v[2] * m) % B16
  IN  IF n >= 0 THEN a \div B16
      ELSE IF (a % B16) = 0 /\ b = 0 THEN -(a \div B16) ELSE -((a \div B16) + 1)

\* Math.floor(rng() * n): the index drawn and the advanced stream
floorRng(t, n) ==
  LET c == rngCall(t) IN [k |-> FloorMul(c.v, n), t |-> c.t]

randInt(t, min, max) ==
  LET c == floorRng(t, max - min + 1) IN [k |-> c.k + min, t |-> c.t]

clamp(n, a, b) == IF n < a THEN a ELSE IF n > b THEN b ELSE n

Abs(n) == IF n < 0 THEN -n ELSE n

manhattan(ax, ay, bx, by) == Abs(ax - bx) + Abs(ay - by)

Max(a, b) == IF a > b THEN a ELSE b

(***************************************************************************)
(* Loops.  A loop of the code is its body, an operator from the loop's     *)
(* variables (a record) to their next values, applied n times.            *)
(***************************************************************************)
RECURSIVE Iter(_, _, _)
Iter(F(_), s, n) ==
  IF n <= 0 THEN s
  ELSE IF n = 1 THEN F(s)
  ELSE Bind(Iter(F, s, n \div 2), LAMBDA m : Iter(F, m, n - (n \div 2)))

Swap(a, i, j) == [a EXCEPT ![i] = a[j], ![j] = a[i]]

\* One round of Fisher-Yates.  Sequences are 1-based here: s.i is the code's
\* i + 1 and the code's j is c.k.
shuffleStep(s) ==
  Bind(floorRng(s.t, s.i), LAMBDA c :
    [a |-> Swap(s.a, s.i, c.k + 1), t |-> c.t, i |-> s.i - 1])

\* for (i = a.length - 1; i > 0; i--): a.length - 1 rounds
shuffle(t, arr) ==
  Bind(Iter(shuffleStep, [a |-> arr, t |-> t, i |-> Len(arr)], Len(arr) - 1),
       LAMBDA s : [a |-> s.a, t |-> s.t])

(***************************************************************************)
(* The map: map[y][x] is a cell.  light is kept in thousandths.            *)
(***************************************************************************)
WALL == 0
FLOOR == 1

EmptyCell == [t |-> WALL, light |-> 0, seen |-> FALSE, item |-> "null", exit |-> FALSE]

makeEmptyMap(w, h) == [y \in 0..(h - 1) |-> [x \in 0..(w - 1) |-> EmptyCell]]

inBounds(map, x, y) ==
  /\ y \in DOMAIN map
  /\ x \in DOMAIN map[0]

carve(map, x, y) ==
  IF inBounds(map, x, y) THEN [map EXCEPT ![y][x].t = FLOOR] ELSE map

\* the first direction of order, from index i, whose cell two steps away is
\* in bounds and still Wall; 0 when there is none
RECURSIVE firstOpen(_, _, _, _, _)
firstOpen(map, cx, cy, order, i) ==
  IF i > Len(order) THEN 0
  ELSE LET nx == cx + order[i][1]
           ny == cy + order[i][2]
       IN  IF inBounds(map, nx, ny) /\ map[ny][nx].t = WALL THEN i
           ELSE firstOpen(map, cx, cy, order, i + 1)

GenDirs == <<(<<2, 0>>), (<<-2, 0>>), (<<0, 2>>), (<<0, -2>>)>>

\* mazeStep without carve(map, cx + dx/2, cy + dy/2): the wall between stays
mazeStepClosed(s) ==
  IF s.stack = <<>> THEN s
  ELSE Bind(shuffle(s.t, GenDirs), LAMBDA sh :
         LET cx == s.stack[Len(s.stack)][1]
             cy == s.stack[Len(s.stack)][2]
             i == firstOpen(s.map, cx, cy, sh.a, 1)
         IN  IF i = 0
             THEN [map |-> s.map, stack |-> SubSeq(s.stack, 1, Len(s.stack) - 1), t |-> sh.t]
             ELSE [map |-> carve(s.map, cx + sh.a[i][1], cy + sh.a[i][2]),
                   stack |-> Append(s.stack, <<cx + sh.a[i][1], cy + sh.a[i][2]>>),
                   t |-> sh.t])

\* one pass of the backtracker's while (stack.length) loop; nothing is left to
\* do once the stack is empty
mazeStep(s) ==
  IF s.stack = <<>> THEN s
  ELSE Bind(shuffle(s.t, GenDirs), LAMBDA sh :
         LET cx == s.stack[Len(s.stack)][1]
             cy == s.stack[Len(s.stack)][2]
             i == firstOpen(s.map, cx, cy, sh.a, 1)
         IN  IF i = 0
             THEN [map |-> s.map, stack |-> SubSeq(s.stack, 1, Len(s.stack) - 1), t |-> sh.t]
             ELSE LET dx == sh.a[i][1]
                      dy == sh.a[i][2]
                  IN  [map |-> carve(carve(s.map, cx + dx, cy + dy),
                                     cx + (dx \div 2), cy + (dy \div 2)),
                       stack |-> Append(s.stack, <<cx + dx, cy + dy>>),
                       t |-> sh.t])

\* n | 1
OrOne(n) == IF (n % 2) = 0 THEN n + 1 ELSE n

\* every cell of the rectangle set to Floor (carve ignores cells off the map)
carveRect(map, rx, ry, rw, rh) ==
  [y \in DOMAIN map |-> [x \in DOMAIN map[y] |->
     IF y >= ry /\ y < ry + rh /\ x >= rx /\ x < rx + rw
     THEN [map[y][x] EXCEPT !.t = FLOOR] ELSE map[y][x]]]

roomStep(s, w, h) ==
  Bind(randInt(s.t, 5, 9), LAMBDA rw :
  Bind(randInt(rw.t, 4, 7), LAMBDA rh :
  Bind(randInt(rh.t, 1, w - rw.k - 2), LAMBDA rx :
  Bind(randInt(rx.t, 1, h - rh.k - 2), LAMBDA ry :
    [map |-> carveRect(s.map, rx.k, ry.k, rw.k, rh.k), t |-> ry.t]))))

\* clamp(1 - sqrt(q)/3, 0, 1) in thousandths, q = x*x + y*y with |x|, |y| <= 2
lightAt(q) ==
  CASE q = 0 -> 1000
    [] q = 1 -> 666
    [] q = 2 -> 528
    [] q = 4 -> 333
    [] q = 5 -> 254
    [] q = 8 -> 57

\* one light source at (lx, ly): Floor cells of the 5x5 window only brighten
lightUp(map, lx, ly) ==
  [y \in DOMAIN map |-> [x \in DOMAIN map[y] |->
     IF Abs(x - lx) <= 2 /\ Abs(y - ly) <= 2 /\ map[y][x].t = FLOOR
     THEN [map[y][x] EXCEPT !.light =
             Max(map[y][x].light, lightAt((x - lx) * (x - lx) + (y - ly) * (y - ly)))]
     ELSE map[y][x]]]

lightStep(s, w, h) ==
  Bind(randInt(s.t, 2, w - 3), LAMBDA lx :
  Bind(randInt(lx.t, 2, h - 3), LAMBDA ly :
    [map |-> IF inBounds(s.map, lx.k, ly.k) /\ s.map[ly.k][lx.k].t = FLOOR
             THEN lightUp(s.map, lx.k, ly.k) ELSE s.map,
     t |-> ly.t]))

\* The backtracker pushes each cell at most once and pops it once, so 2*w*h
\* passes empty the stack.
generateLayout(w, h, t) ==
  LET sx == OrOne(w \div 2)
      sy == OrOne(h \div 2)
      start == [map |-> carve(makeEmptyMap(w, h), sx, sy), stack |-> <<(<<sx, sy>>)>>, t |-> t]
  IN  Bind(Iter(mazeStep, start, 2 * w * h), LAMBDA maze :
      Bind(Iter(LAMBDA s : roomStep(s, w, h), [map |-> maze.map, t |-> maze.t],
                (w * h) \div 400), LAMBDA rooms :
        Iter(LAMBDA s : lightStep(s, w, h), rooms, (w * h) \div 200)))

(***************************************************************************)
(* placeThings                                                             *)
(***************************************************************************)
\* one cell of the two for loops that list the floors, cell number s.k
floorsStep(s) ==
  LET x == s.k % Cardinality(DOMAIN s.map[0])
      y == s.k \div Cardinality(DOMAIN s.map[0])
  IN  [map |-> s.map, k |-> s.k + 1,
       out |-> IF s.map[y][x].t = FLOOR THEN Append(s.out, <<x, y>>) ELSE s.out]

\* the Floor coordinates <<x, y>> in row order
floorTiles(map) ==
  Iter(floorsStep, [map |-> map, k |-> 0, out |-> <<>>],
       Cardinality(DOMAIN map) * Cardinality(DOMAIN map[0])).out

RemoveAt(s, i) == SubSeq(s, 1, i - 1) \o SubSeq(s, i + 1, Len(s))

\* pick leaving the chosen cell in the pool
pickKeep(floors, t) ==
  Bind(floorRng(t, Len(floors)), LAMBDA c :
    [c |-> floors[c.k + 1], floors |-> floors, t |-> c.t])

\* floors.splice(Math.floor(rng()*floors.length), 1)[0]
pick(floors, t) ==
  Bind(floorRng(t, Len(floors)), LAMBDA c :
    [c |-> floors[c.k + 1], floors |-> RemoveAt(floors, c.k + 1), t |-> c.t])

ExitTries == 200

\* one draw of the exit search: with replacement, strictly farther wins
exitStep(s, floors, px, py) ==
  Bind(floorRng(s.t, Len(floors)), LAMBDA c :
    LET x == floors[c.k + 1][1]
        y == floors[c.k + 1][2]
        d == manhattan(px, py, x, y)
    IN  IF d > s.bestD THEN [ex |-> x, ey |-> y, bestD |-> d, t |-> c.t]
        ELSE [ex |-> s.ex, ey |-> s.ey, bestD |-> s.bestD, t |-> c.t])

\* almondStep without the test that keeps the exit free
almondStepAnywhere(s) ==
  Bind(pick(s.floors, s.t), LAMBDA p :
    [map |-> [s.map EXCEPT ![p.c[2]][p.c[1]].item = "almond"],
     floors |-> p.floors, t |-> p.t])

almondStep(s) ==
  Bind(pick(s.floors, s.t), LAMBDA p :
    [map |-> IF ~s.map[p.c[2]][p.c[1]].exit
             THEN [s.map EXCEPT ![p.c[2]][p.c[1]].item = "almond"] ELSE s.map,
     floors |-> p.floors, t |-> p.t])

houndStep(s) ==
  Bind(pick(s.floors, s.t), LAMBDA p :
  Bind(randInt(p.t, 0, 2), LAMBDA cd :
    [hounds |-> Append(s.hounds, [x |-> p.c[1], y |-> p.c[2], cooldown |-> cd.k]),
     floors |-> p.floors, t |-> cd.t]))

placeThings(map, t) ==
  Bind(pick(floorTiles(map), t), LAMBDA sp :
  Bind(Iter(LAMBDA s : exitStep(s, sp.floors, sp.c[1], sp.c[2]),
            [ex |-> sp.c[1], ey |-> sp.c[2], bestD |-> -1, t |-> sp.t], ExitTries),
       LAMBDA e :
  Bind(Iter(almondStep,
            [map |-> [map EXCEPT ![e.ey][e.ex].exit = TRUE], floors |-> sp.floors, t |-> e.t],
            Max(5, Len(sp.floors) \div 120)), LAMBDA aw :
  Bind(Iter(houndStep, [hounds |-> <<>>, floors |-> aw.floors, t |-> aw.t],
            Max(1, Len(aw.floors) \div 800)), LAMBDA hs :
    [map |-> aw.map, px |-> sp.c[1], py |-> sp.c[2], hounds |-> hs.hounds, t |-> hs.t]))))

(***************************************************************************)
(* stepHound.  The hound's shuffle draws from Math.random, so the shuffled *)
(* order is any permutation of the four unit steps; sort is stable.        *)
(***************************************************************************)
HoundDirs == <<(<<1, 0>>), (<<-1, 0>>), (<<0, 1>>), (<<0, -1>>)>>

\* what shuffle(Math.random, HoundDirs) can return
Shuffled ==
  {[i \in 1..4 |-> HoundDirs[p[i]]] : p \in {q \in [1..4 -> 1..4] : \A i, j \in 1..4 : q[i] = q[j] => i = j}}

\* the elements of dirs whose key is v, v + 1, .. hi, in that order of keys
\* and, within one key, in the order they have in dirs
RECURSIVE byKeyFrom(_, _, _, _)
byKeyFrom(dirs, key(_), v, hi) ==
  IF v > hi THEN <<>>
  ELSE SelectSeq(dirs, LAMBDA a : key(a) = v) \o byKeyFrom(dirs, key, v + 1, hi)

\* the shuffled steps left in the order the shuffle gave them
sortByDistanceNone(dirs, hx, hy, targetX, targetY) == dirs

\* dirs.sort((a, b) => da - db): ascending distance to the target, ties in
\* the order they had (Array.prototype.sort is stable).  A unit step changes
\* the distance by one, so the keys lie within one of the hound's distance.
sortByDistance(dirs, hx, hy, targetX, targetY) ==
  LET d == manhattan(hx, hy, targetX, targetY)
  IN  byKeyFrom(dirs, LAMBDA a : manhattan(hx + a[1], hy + a[2], targetX, targetY),
                d - 1, d + 1)

\* the first legal step of dirs from index i, or the hound where it is
RECURSIVE firstLegal(_, _, _, _)
firstLegal(map, h, dirs, i) ==
  IF i > Len(dirs) THEN h
  ELSE LET nx == h.x + dirs[i][1]
           ny == h.y + dirs[i][2]
       IN  IF inBounds(map, nx, ny) /\ map[ny][nx].t = FLOOR
           THEN [h EXCEPT !.x = nx, !.y = ny]
           ELSE firstLegal(map, h, dirs, i + 1)

\* the hound after stepHound when its shuffle returned order
stepHound(map, h, targetX, targetY, order) ==
  firstLegal(map, h, sortByDistance(order, h.x, h.y, targetX, targetY), 1)

\* houndNext without the continue: a hound that cools down chases as well
houndNextEager(map, h, nx, ny) ==
  {stepHound(map, [h EXCEPT !.cooldown = Max(h.cooldown - 1, 0)], nx, ny, order) : order \in Shuffled}

\* what one hound can be after the enemies update of a step to (nx, ny)
houndNext(map, h, nx, ny) ==
  IF h.cooldown > 0 THEN {[h EXCEPT !.cooldown = h.cooldown - 1]}
  ELSE LET chase == {stepHound(map, h, nx, ny, order) : order \in Shuffled}
       IN  IF manhattan(h.x, h.y, nx, ny) < 10 THEN chase
           ELSE chase \cup {h}          \* Math.random() < 0.3, or not

\* what the hounds can be after the update: one choice for each, in order
RECURSIVE houndsNext(_, _, _, _)
houndsNext(map, hs, nx, ny) ==
  IF hs = <<>> THEN {<<>>}
  ELSE {<<h>> \o rest : h \in houndNext(map, hs[1], nx, ny),
                        rest \in houndsNext(map, SubSeq(hs, 2, Len(hs)), nx, ny)}

(***************************************************************************)
(* The flicker effect: every lit cell of the map moves by its own          *)
(* (Math.random() - 0.5) * 0.05 and is clamped to [0.1, 1].                *)
(***************************************************************************)
FlickerDeltas == {-25, 0, 24}

Lit(m) == {c \in (DOMAIN m[0]) \X (DOMAIN m) : m[c[2]][c[1]].light > 0}

flickered(m) ==
  {[y \in DOMAIN m |-> [x \in DOMAIN m[y] |->
      IF m[y][x].light > 0
      THEN [m[y][x] EXCEPT !.light = clamp(m[y][x].light + f[<<x, y>>], 100, 1000)]
      ELSE m[y][x]]] : f \in [Lit(m) -> FlickerDeltas]}

(***************************************************************************)
(* Seeds in localStorage are decimal strings.                              *)
(***************************************************************************)
Digits == <<"0", "1", "2", "3", "4", "5", "6", "7", "8", "9">>

\* String(n) for an integer n >= 0, as the sequence of its characters
RECURSIVE String(_)
String(n) ==
  IF n < 10 THEN <<Digits[n + 1]>> ELSE Append(String(n \div 10), Digits[(n % 10) + 1])

DigitValue(ch) == (CHOOSE i \in 1..10 : Digits[i] = ch) - 1

\* parseInt of a string of decimal digits
RECURSIVE parseInt(_)
parseInt(str) ==
  IF Len(str) = 1 THEN DigitValue(str[1])
  ELSE 10 * parseInt(SubSeq(str, 1, Len(str) - 1)) + DigitValue(str[Len(str)])

(***************************************************************************)
(* The session a seed gives.  The placement effect generates a map from    *)
(* the component's rng and places the player, exit, items and hounds.      *)
(* After restart the rng is new (useMemo on [seed]); at mount the useState *)
(* initializer of map has already drawn one generateLayout from the same   *)
(* rng.                                                                    *)
(***************************************************************************)
placementOn(w, h, rng) ==
  Bind(generateLayout(w, h, rng), LAMBDA g :
  Bind(placeThings(g.map, g.t), LAMBDA p :
    [map |-> [p.map EXCEPT ![p.py][p.px].seen = TRUE],
     player |-> [x |-> p.px, y |-> p.py],
     hounds |-> p.hounds]))

placement(rng) == placementOn(W, H, rng)

atRestart(s) == placement(mulberry32(s))

atMount(s) == placement(generateLayout(W, H, mulberry32(s)).t)

\* the worlds of seeds 0 .. MaxSeed, computed once: world s is at index s + 1
RestartWorlds == Iter(LAMBDA acc : Append(acc, atRestart(Len(acc))), <<>>, MaxSeed + 1)

MountWorlds == Iter(LAMBDA acc : Append(acc, atMount(Len(acc))), <<>>, MaxSeed + 1)

(***************************************************************************)
(* The component's state.  storage is localStorage's br_seed (<<>> when    *)
(* the key is absent).  pressed is the key of the keydown event handled    *)
(* last ("" when the last input was no key), last is the operation that    *)
(* input reached and how it ended.  gen is a call of generateLayout and    *)
(* placeThings under way, for the specification that follows one loop     *)
(* pass at a time; in a mounted component no call is under way.           *)
(***************************************************************************)
VARIABLES seed, storage, map, player, hounds, sanity, bottles, turn, gameOver, pressed, last, gen

NoCall == [phase |-> "none"]

sess == <<map, player, hounds, sanity, bottles, turn, gameOver>>

vars == <<seed, storage, map, player, hounds, sanity, bottles, turn, gameOver, pressed, last, gen>>

Did(op, dx, dy, res) == [op |-> op, dx |-> dx, dy |-> dy, res |-> res]

\* useState(() => saved ? parseInt(saved) : Math.floor(Math.random()*1e9))
seedAtMount(saved) == IF saved # <<>> THEN {parseInt(saved)} ELSE Seeds

\* Mount with empty storage: the render, then the placement, flicker and
\* persist effects.
Init ==
  \E s \in seedAtMount(<<>>) :
    /\ seed = s
    /\ storage = String(s)
    /\ map \in flickered(MountWorlds[s + 1].map)
    /\ player = MountWorlds[s + 1].player
    /\ hounds = MountWorlds[s + 1].hounds
    /\ sanity = 100
    /\ bottles = 0
    /\ turn = 0
    /\ gameOver = "null"
    /\ pressed = ""
    /\ gen = NoCall
    /\ last = Did("mount", 0, 0, "created")

\* The page is loaded again: a new mount, with what storage holds.
Reload ==
  \E s \in seedAtMount(storage) :
    /\ seed' = s
    /\ storage' = String(s)
    /\ map' \in flickered(MountWorlds[s + 1].map)
    /\ player' = MountWorlds[s + 1].player
    /\ hounds' = MountWorlds[s + 1].hounds
    /\ sanity' = 100
    /\ bottles' = 0
    /\ turn' = 0
    /\ gameOver' = "null"
    /\ pressed' = ""
    /\ UNCHANGED gen
    /\ last' = Did("mount", 0, 0, "created")

\* restart() drawing newSeed.  Setting the seed it already has re-renders
\* nothing; otherwise the placement effect runs on a new rng, the persist
\* effect stores the seed, and the flicker effect runs if turn changes.
restart(newSeed) ==
  IF newSeed = seed
  THEN /\ UNCHANGED <<seed, storage, sess>>
       /\ last' = Did("restart", 0, 0, "same")
  ELSE /\ seed' = newSeed
       /\ storage' = String(newSeed)
       /\ map' \in IF turn # 0 THEN flickered(RestartWorlds[newSeed + 1].map)
                   ELSE {RestartWorlds[newSeed + 1].map}
       /\ player' = RestartWorlds[newSeed + 1].player
       /\ hounds' = RestartWorlds[newSeed + 1].hounds
       /\ sanity' = 100
       /\ bottles' = 0
       /\ turn' = 0
       /\ gameOver' = "null"
       /\ last' = Did("restart", 0, 0, "created")

\* drinkBlocked letting the last bottle be drunk twice
drinkBlockedLate == bottles < 0 \/ gameOver # "null"

drinkBlocked == bottles <= 0 \/ gameOver # "null"

drunk(s) == clamp(s + 35, 0, 100)

drink ==
  IF drinkBlocked
  THEN /\ UNCHANGED <<seed, storage, sess>>
       /\ last' = Did("drink", 0, 0, "no")
  ELSE /\ bottles' = bottles - 1
       /\ sanity' = drunk(sanity)
       /\ UNCHANGED <<seed, storage, map, player, hounds, turn, gameOver>>
       /\ last' = Did("drink", 0, 0, "drank")

\* stepBlocked without the gameOver test
stepNeverBlocked == FALSE

stepBlocked == gameOver # "null"

\* W and H of the component, which are the width and height of its map
gridW == Cardinality(DOMAIN map[0])

gridH == Cardinality(DOMAIN map)

stepTarget(p, dx, dy) ==
  [x |-> clamp(p.x + dx, 0, gridW - 1), y |-> clamp(p.y + dy, 0, gridH - 1)]

\* stepOpen looking at the cell the player stands on
stepOpenHere(m, nx, ny) == m[player.y][player.x].t = FLOOR

stepOpen(m, nx, ny) == m[ny][nx].t = FLOOR

\* stepCopy leaving the item on the cell
stepCopyKeep(m, nx, ny) == [m EXCEPT ![ny][nx].seen = TRUE]

\* the copy of the map with the target seen and its item taken
stepCopy(m, nx, ny) == [m EXCEPT ![ny][nx].seen = TRUE, ![ny][nx].item = "null"]

\* exitHere looking at the cell the player leaves
exitHereOld(copy, nx, ny) == copy[player.y][player.x].exit

exitHere(copy, nx, ny) == copy[ny][nx].exit

\* sanityDrain with steps that cost nothing
sanityDrainNone(light) == 0

\* sanityDrain with the threshold at 0.7
sanityDrainDim(light) == IF light > 700 THEN 1 ELSE 3

sanityDrain(light) == IF light > 400 THEN 1 ELSE 3

\* drained without the clamp
drainedUnclamped(s, drain) == s - drain

drained(s, drain) == clamp(s - drain, 0, 100)

\* houndAt with the collision test left out
houndAtNever(hs, nx, ny) == FALSE

\* houndAt comparing with the cell the player leaves
houndAtOld(hs, nx, ny) == \E i \in 1..Len(hs) : hs[i].x = player.x /\ hs[i].y = player.y

houndAt(hs, nx, ny) == \E i \in 1..Len(hs) : hs[i].x = nx /\ hs[i].y = ny

\* sanityGone forgetting this turn's drain
sanityGoneBefore(s, drain) == s <= 0

sanityGone(s, drain) == s - drain <= 0

step(dx, dy) ==
  LET n == stepTarget(player, dx, dy)
      copy == stepCopy(map, n.x, n.y)
      drain == sanityDrain(copy[n.y][n.x].light)
  IN
  IF stepBlocked
  THEN /\ UNCHANGED <<seed, storage, sess>>
       /\ last' = Did("step", dx, dy, "over")
  ELSE IF ~stepOpen(map, n.x, n.y)
  THEN /\ UNCHANGED <<seed, storage, sess>>
       /\ last' = Did("step", dx, dy, "wall")
  ELSE /\ bottles' = IF map[n.y][n.x].item = "almond" THEN bottles + 1 ELSE bottles
       /\ player' = n
       /\ UNCHANGED <<seed, storage>>
       /\ IF exitHere(copy, n.x, n.y)
          THEN /\ map' \in flickered(copy)
               /\ turn' = turn + 1
               /\ gameOver' = "win"
               /\ UNCHANGED <<hounds, sanity>>
               /\ last' = Did("step", dx, dy, "won")
          ELSE /\ sanity' = drained(sanity, drain)
               /\ hounds' \in houndsNext(map, hounds, n.x, n.y)
               /\ IF houndAt(hounds', n.x, n.y)
                  THEN /\ map' = copy
                       /\ gameOver' = "dead"
                       /\ turn' = turn
                       /\ last' = Did("step", dx, dy, "caught")
                  ELSE IF sanityGone(sanity, drain)
                  THEN /\ map' = copy
                       /\ gameOver' = "dead"
                       /\ turn' = turn
                       /\ last' = Did("step", dx, dy, "depleted")
                  ELSE /\ map' \in flickered(copy)
                       /\ gameOver' = gameOver
                       /\ turn' = turn + 1
                       /\ last' = Did("step", dx, dy, "moved")

(***************************************************************************)
(* onKey.  m and h only toggle the minimap and the help panel.             *)
(***************************************************************************)
Keys == {"ArrowUp", "ArrowDown", "ArrowLeft", "ArrowRight", " ", "r", "x"}

toLowerCase(key) ==
  CASE key = "W" -> "w" [] key = "A" -> "a" [] key = "S" -> "s" [] key = "D" -> "d"
    [] key = "R" -> "r" [] key = "M" -> "m" [] key = "H" -> "h" [] OTHER -> key

\* keyStep with a zero move for the keys it does not know
keyStepZero(key) ==
  IF key \in {"ArrowUp", "w", "W"} THEN <<0, -1>>
  ELSE IF key \in {"ArrowDown", "s", "S"} THEN <<0, 1>>
  ELSE IF key \in {"ArrowLeft", "a", "A"} THEN <<-1, 0>>
  ELSE IF key \in {"ArrowRight", "d", "D"} THEN <<1, 0>>
  ELSE <<0, 0>>

\* the step a key asks for, <<>> when it asks for none
keyStep(key) ==
  IF key \in {"ArrowUp", "w", "W"} THEN <<0, -1>>
  ELSE IF key \in {"ArrowDown", "s", "S"} THEN <<0, 1>>
  ELSE IF key \in {"ArrowLeft", "a", "A"} THEN <<-1, 0>>
  ELSE IF key \in {"ArrowRight", "d", "D"} THEN <<1, 0>>
  ELSE <<>>

onKey(key) ==
  /\ pressed' = key
  /\ UNCHANGED gen
  /\ IF gameOver # "null" /\ toLowerCase(key) # "r"
     THEN /\ UNCHANGED <<seed, storage, sess>>
          /\ last' = Did("key", 0, 0, "over")
     ELSE IF key \in {"m", "M", "h", "H"}
     THEN /\ UNCHANGED <<seed, storage, sess>>
          /\ last' = Did("key", 0, 0, "panel")
     ELSE IF key \in {"r", "R"} THEN \E newSeed \in Seeds : restart(newSeed)
     ELSE IF key = " " THEN drink
     ELSE IF keyStep(key) # <<>> THEN step(keyStep(key)[1], keyStep(key)[2])
     ELSE /\ UNCHANGED <<seed, storage, sess>>
          /\ last' = Did("key", 0, 0, "none")

\* A session takes at most MaxTurns turns here.
KeyDown == \E key \in Keys : (keyStep(key) # <<>> => turn < MaxTurns) /\ onKey(key)

\* the restart and new-map buttons
ClickRestart == pressed' = "" /\ UNCHANGED gen /\ \E newSeed \in Seeds : restart(newSeed)

\* the drink button, disabled={bottles<=0 || !!gameOver}
ClickDrink == ~(bottles <= 0 \/ gameOver # "null") /\ pressed' = "" /\ UNCHANGED gen /\ drink

Next == KeyDown \/ ClickRestart \/ ClickDrink \/ Reload

Spec == Init /\ [][Next]_vars

(***************************************************************************)
(* A long session: the arrow keys for up to LongTurns turns, and Space     *)
(* only once sanity is down to SipBelow.                                   *)
(***************************************************************************)
ArrowKeys == {"ArrowUp", "ArrowDown", "ArrowLeft", "ArrowRight"}

Walk == \E key \in ArrowKeys : turn < LongTurns /\ onKey(key)

Sip == sanity <= SipBelow /\ onKey(" ")

NextLong == Walk \/ Sip

SpecLong == Init /\ [][NextLong]_vars

(***************************************************************************)
(* The turn engine called directly, next to the keys: step with any dx, dy *)
(* in -1..1 and drink, in sessions of up to CallTurns turns.               *)
(***************************************************************************)
CallStep == \E dx \in -1..1, dy \in -1..1 : turn < CallTurns /\ pressed' = "" /\ UNCHANGED gen /\ step(dx, dy)

CallDrink == pressed' = "" /\ UNCHANGED gen /\ drink

CallKey == \E key \in Keys : (keyStep(key) # <<>> => turn < CallTurns) /\ onKey(key)

NextCalls == CallStep \/ CallDrink \/ CallKey \/ ClickRestart \/ Reload

SpecCalls == Init /\ [][NextCalls]_vars

(***************************************************************************)
(* A session played to its end: the arrow keys with no limit on the turns, *)
(* and Space once sanity is down to SipBelow.  Nothing but the program     *)
(* stops it.                                                               *)
(***************************************************************************)
Stride == \E key \in ArrowKeys : onKey(key)

NextEnd == Stride \/ Sip

SpecEnd == Init /\ [][NextEnd]_vars

(***************************************************************************)
(* generateLayout and placeThings one loop pass at a time, as the          *)
(* placement effect calls them on a new rng, on a GenW x GenH grid: large  *)
(* enough for a room and for lights.  The session variables keep their     *)
(* useState values until the effect sets them.                             *)
(***************************************************************************)
GenSeeds == 0..MaxGenSeed

genCall(w, h, t) ==
  [phase |-> "maze", w |-> w, h |-> h,
   map |-> carve(makeEmptyMap(w, h), OrOne(w \div 2), OrOne(h \div 2)),
   stack |-> <<(<<OrOne(w \div 2), OrOne(h \div 2)>>)>>, t |-> t, i |-> 0,
   floors |-> <<>>, px |-> 0, py |-> 0, ex |-> 0, ey |-> 0, bestD |-> -1, hounds |-> <<>>]

InitGen ==
  \E s \in GenSeeds :
    /\ seed = s
    /\ storage = <<>>
    /\ map = makeEmptyMap(GenW, GenH)
    /\ player = [x |-> 0, y |-> 0]
    /\ hounds = <<>>
    /\ sanity = 100
    /\ bottles = 0
    /\ turn = 0
    /\ gameOver = "null"
    /\ pressed = ""
    /\ last = Did("generate", 0, 0, "running")
    /\ gen = genCall(GenW, GenH, mulberry32(s))

GenIdle == UNCHANGED <<seed, storage, sess, pressed, last>>

\* while (stack.length): one pass
GenMazePass ==
  /\ gen.phase = "maze" /\ gen.stack # <<>>
  /\ gen' = Bind(mazeStep([map |-> gen.map, stack |-> gen.stack, t |-> gen.t]), LAMBDA m :
              [gen EXCEPT !.map = m.map, !.stack = m.stack, !.t = m.t])
  /\ GenIdle

GenMazeDone ==
  /\ gen.phase = "maze" /\ gen.stack = <<>>
  /\ gen' = [gen EXCEPT !.phase = "rooms", !.i = 0]
  /\ GenIdle

\* for (i < roomCount): one room
GenRoomPass ==
  /\ gen.phase = "rooms" /\ gen.i < (gen.w * gen.h) \div 400
  /\ gen' = Bind(roomStep([map |-> gen.map, t |-> gen.t], gen.w, gen.h), LAMBDA r :
              [gen EXCEPT !.map = r.map, !.t = r.t, !.i = gen.i + 1])
  /\ GenIdle

GenRoomsDone ==
  /\ gen.phase = "rooms" /\ gen.i >= (gen.w * gen.h) \div 400
  /\ gen' = [gen EXCEPT !.phase = "lights", !.i = 0]
  /\ GenIdle

\* for (i < lightCount): one light
GenLightPass ==
  /\ gen.phase = "lights" /\ gen.i < (gen.w * gen.h) \div 200
  /\ gen' = Bind(lightStep([map |-> gen.map, t |-> gen.t], gen.w, gen.h), LAMBDA l :
              [gen EXCEPT !.map = l.map, !.t = l.t, !.i = gen.i + 1])
  /\ GenIdle

\* generateLayout returns; placeThings lists the floors and picks the spawn
GenSpawn ==
  /\ gen.phase = "lights" /\ gen.i >= (gen.w * gen.h) \div 200
  /\ gen' = Bind(pick(floorTiles(gen.map), gen.t), LAMBDA sp :
              [gen EXCEPT !.phase = "exit", !.i = 0, !.floors = sp.floors, !.t = sp.t,
                          !.px = sp.c[1], !.py = sp.c[2], !.ex = sp.c[1], !.ey = sp.c[2],
                          !.bestD = -1])
  /\ GenIdle

\* for (i < 200): one draw of the exit search
GenExitPass ==
  /\ gen.phase = "exit" /\ gen.i < ExitTries
  /\ gen' = Bind(exitStep([ex |-> gen.ex, ey |-> gen.ey, bestD |-> gen.bestD, t |-> gen.t],
                          gen.floors, gen.px, gen.py), LAMBDA e :
              [gen EXCEPT !.ex = e.ex, !.ey = e.ey, !.bestD = e.bestD, !.t = e.t,
                          !.i = gen.i + 1])
  /\ GenIdle

\* map[ey][ex].exit = true; awCount is fixed here
GenExitDone ==
  /\ gen.phase = "exit" /\ gen.i >= ExitTries
  /\ gen' = [gen EXCEPT !.phase = "almonds", !.map[gen.ey][gen.ex].exit = TRUE,
                        !.i = Max(5, Len(gen.floors) \div 120)]
  /\ GenIdle

\* for (i < awCount): one almond water; i counts down here
GenAlmondPass ==
  /\ gen.phase = "almonds" /\ gen.i > 0
  /\ gen' = Bind(almondStep([map |-> gen.map, floors |-> gen.floors, t |-> gen.t]), LAMBDA a :
              [gen EXCEPT !.map = a.map, !.floors = a.floors, !.t = a.t, !.i = gen.i - 1])
  /\ GenIdle

\* hCount is fixed here
GenAlmondsDone ==
  /\ gen.phase = "almonds" /\ gen.i = 0
  /\ gen' = [gen EXCEPT !.phase = "hounds", !.i = Max(1, Len(gen.floors) \div 800)]
  /\ GenIdle

\* for (i < hCount): one hound; i counts down here
GenHoundPass ==
  /\ gen.phase = "hounds" /\ gen.i > 0
  /\ gen' = Bind(houndStep([hounds |-> gen.hounds, floors |-> gen.floors, t |-> gen.t]),
                 LAMBDA k :
              [gen EXCEPT !.hounds = k.hounds, !.floors = k.floors, !.t = k.t,
                          !.i = gen.i - 1])
  /\ GenIdle

\* placeThings returns and the placement effect sets the session
GenPlaced ==
  /\ gen.phase = "hounds" /\ gen.i = 0
  /\ gen' = [gen EXCEPT !.phase = "done"]
  /\ map' = [gen.map EXCEPT ![gen.py][gen.px].seen = TRUE]
  /\ player' = [x |-> gen.px, y |-> gen.py]
  /\ hounds' = gen.hounds
  /\ sanity' = 100
  /\ bottles' = 0
  /\ turn' = 0
  /\ gameOver' = "null"
  /\ last' = Did("generate", 0, 0, "created")
  /\ UNCHANGED <<seed, storage, pressed>>

NextGen ==
  \/ GenMazePass \/ GenMazeDone \/ GenRoomPass \/ GenRoomsDone \/ GenLightPass
  \/ GenSpawn \/ GenExitPass \/ GenExitDone \/ GenAlmondPass \/ GenAlmondsDone
  \/ GenHoundPass \/ GenPlaced

SpecGen == InitGen /\ [][NextGen]_vars

(***************************************************************************)
(* A hall: the component built with W = HallW and H = HallH, a single      *)
(* corridor long enough for one light and for a hound ten or more cells    *)
(* from the player, mounted with one of HallSeeds and walked with the      *)
(* arrow keys for up to HallTurns turns.                                   *)
(***************************************************************************)
HallW == 67
HallH == 3
HallTurns == 1

HallSeeds == <<136, 950>>

hallAtMount(s) ==
  placementOn(HallW, HallH, generateLayout(HallW, HallH, mulberry32(s)).t)

\* the worlds of HallSeeds, computed once
HallWorlds ==
  Iter(LAMBDA acc : Append(acc, hallAtMount(HallSeeds[Len(acc) + 1])), <<>>, Len(HallSeeds))

InitHall ==
  \E i \in 1..Len(HallSeeds) :
    /\ seed = HallSeeds[i]
    /\ storage = String(HallSeeds[i])
    /\ map \in flickered(HallWorlds[i].map)
    /\ player = HallWorlds[i].player
    /\ hounds = HallWorlds[i].hounds
    /\ sanity = 100
    /\ bottles = 0
    /\ turn = 0
    /\ gameOver = "null"
    /\ pressed = ""
    /\ gen = NoCall
    /\ last = Did("mount", 0, 0, "created")

HallWalk == \E key \in ArrowKeys : turn < HallTurns /\ onKey(key)

NextHall == HallWalk

SpecHall == InitHall /\ [][NextHall]_vars

(***************************************************************************)
(* stepHound called on its own: any terrain on a small grid, the hound and *)
(* its target on any two cells, and the call repeated from where the hound *)
(* came to stand.                                                          *)
(***************************************************************************)
PenW == 3
PenH == 3

PenCells == (0..(PenW - 1)) \X (0..(PenH - 1))

\* the grid whose Floor cells are those of open
penMap(open) ==
  [y \in 0..(PenH - 1) |-> [x \in 0..(PenW - 1) |->
     [EmptyCell EXCEPT !.t = IF <<x, y>> \in open THEN FLOOR ELSE WALL]]]

InitPen ==
  \E open \in SUBSET PenCells, hc \in PenCells, tc \in PenCells :
    /\ seed = 0
    /\ storage = <<>>
    /\ map = penMap(open)
    /\ player = [x |-> tc[1], y |-> tc[2]]
    /\ hounds = <<[x |-> hc[1], y |-> hc[2], cooldown |-> 0]>>
    /\ sanity = 100
    /\ bottles = 0
    /\ turn = 0
    /\ gameOver = "null"
    /\ pressed = ""
    /\ last = Did("pen", 0, 0, "set")
    /\ gen = NoCall

\* stepHound(map, h, nx, ny, Math.random) for the hound of the pen
PenChase ==
  \E order \in Shuffled :
    /\ hounds' = <<stepHound(map, hounds[1], player.x, player.y, order)>>
    /\ last' = Did("stepHound", hounds'[1].x - hounds[1].x, hounds'[1].y - hounds[1].y,
                   IF hounds' = hounds THEN "stayed" ELSE "moved")
    /\ UNCHANGED <<seed, storage, map, player, sanity, bottles, turn, gameOver, pressed, gen>>

NextPen == PenChase

SpecPen == InitPen /\ [][NextPen]_vars

(***************************************************************************)
(* What the claims speak of, read off a transition: the input handled is   *)
(* in last' and pressed', the session it met is in the unprimed variables. *)
(***************************************************************************)
Stepping == last'.op = "step"

\* where the step being handled asks to go, before any clamping
Asked == [x |-> player.x + last'.dx, y |-> player.y + last'.dy]

OnGrid(p) == p.x \in 0..(gridW - 1) /\ p.y \in 0..(gridH - 1)

Playing == gameOver = "null"

NewSession == last'.op \in {"restart", "mount"}

\* C1: sanity is an integer in 0..100 in every state
C1_SanityInRange == sanity \in 0..100

\* a step has drained sanity down to the lower end of the range
C1_Witness == sanity = 0 /\ last.op = "step" /\ last.res = "depleted"

\* C2: once the outcome is Won or Lost, applyMove (step) and useSanityItem
\* (drink) change nothing of the session, and the outcome changes only
\* through a new-session operation
C2_TerminalFrozen ==
  [][~Playing =>
       /\ (last'.op \in {"step", "drink"} => UNCHANGED sess)
       /\ (gameOver' # gameOver => NewSession)]_vars

\* step and drink have each been called on a finished session
C2_Witness == gameOver \in {"win", "dead"} /\ pressed = "" /\ last.op \in {"step", "drink"}

\* C3: a step whose target cell is on the grid and a Wall changes nothing:
\* no turn, no sanity, no pursuer movement
C3_WallMoveNoOp ==
  [][(Stepping /\ Playing /\ OnGrid(Asked) /\ map[Asked.y][Asked.x].t = WALL)
       => UNCHANGED sess]_vars

\* the last input was a step into a Wall cell of the grid
C3_Witness ==
  /\ last.op = "step" /\ last.res = "wall" /\ gameOver = "null"
  /\ player.x + last.dx \in 0..(W - 1) /\ player.y + last.dy \in 0..(H - 1)
  /\ map[player.y + last.dy][player.x + last.dx].t = WALL

\* the cell the step being handled moves to if it is accepted
Target == [x |-> clamp(Asked.x, 0, gridW - 1), y |-> clamp(Asked.y, 0, gridH - 1)]

\* an accepted step that does not win
Accepted ==
  /\ Stepping /\ Playing
  /\ map[Target.y][Target.x].t = FLOOR
  /\ ~map[Target.y][Target.x].exit

Drain == IF map[Target.y][Target.x].light > 400 THEN 1 ELSE 3

\* after the hounds' update one of them is where the player now is
Caught == \E i \in 1..Len(hounds') : hounds'[i].x = player'.x /\ hounds'[i].y = player'.y

\* C4: a step whose target coordinate is outside the grid changes nothing
\* of the session and takes no turn, on every boundary cell the player can
\* stand on, Floor cells included
C4_OffGridRejected == [][(Stepping /\ Playing /\ ~OnGrid(Asked)) => UNCHANGED sess]_vars

\* C5: a step of a session in progress onto the exit cell makes the outcome
\* win, puts the player on the exit, adds exactly 1 to turn, and leaves the
\* hounds (positions and cooldowns) and sanity as they were
C5_WinningStep ==
  [][(Stepping /\ Playing /\ OnGrid(Asked) /\ map[Asked.y][Asked.x].t = FLOOR
        /\ map[Asked.y][Asked.x].exit)
       => /\ gameOver' = "win"
          /\ player' = Asked
          /\ turn' = turn + 1
          /\ hounds' = hounds
          /\ sanity' = sanity]_vars

\* the player has just stepped onto the exit
C5_Witness ==
  /\ gameOver = "win" /\ last.op = "step" /\ last.res = "won"
  /\ map[player.y][player.x].exit /\ turn > 0

\* C6, as claimed: when a hound is on the player's new cell after the
\* hounds' update, the outcome is dead and sanity is what it was before
\* the step
C6_CaughtNoDrain == [][(Accepted /\ Caught) => (gameOver' = "dead" /\ sanity' = sanity)]_vars

\* C6, amended: when a hound is on the player's new cell after the hounds'
\* update, the outcome is dead, and sanity has been drained as on any
\* accepted step: it is max(0, sanity - drain)
C6_CaughtAfterDrain ==
  [][(Accepted /\ Caught) => (gameOver' = "dead" /\ sanity' = Max(0, sanity - Drain))]_vars

\* a hound has just caught the player, and the step drained sanity
C6_Witness ==
  /\ gameOver = "dead" /\ last.op = "step" /\ last.res = "caught"
  /\ \E i \in 1..Len(hounds) : hounds[i].x = player.x /\ hounds[i].y = player.y
  /\ sanity < 100

\* C7: on an accepted step that does not win and on which no hound catches
\* the player, if the drain is at least the current sanity then the outcome
\* is dead, sanity is exactly 0 and turn is not incremented
C7_DepletedIsLost ==
  [][(Accepted /\ ~Caught /\ Drain >= sanity)
       => (gameOver' = "dead" /\ sanity' = 0 /\ turn' = turn)]_vars

\* sanity has just run out on a step, away from every hound
C7_Witness ==
  /\ gameOver = "dead" /\ sanity = 0 /\ last.res = "depleted"
  /\ \A i \in 1..Len(hounds) : hounds[i].x # player.x \/ hounds[i].y # player.y

\* C8: drink with a bottle, in a session in progress, takes exactly one
\* bottle and sets sanity to min(100, sanity + 35), leaving turn, player,
\* hounds, map and outcome alone; with no bottle it changes nothing
C8_Drink ==
  [][(last'.op = "drink" /\ Playing)
       => IF bottles > 0
          THEN /\ bottles' = bottles - 1
               /\ sanity' = (IF sanity + 35 > 100 THEN 100 ELSE sanity + 35)
               /\ UNCHANGED <<turn, player, hounds, map, gameOver>>
          ELSE UNCHANGED sess]_vars

\* a bottle has just been drunk and sanity stayed below its cap
C8_Witness == last.op = "drink" /\ last.res = "drank" /\ sanity < 100 /\ gameOver = "null"

UnitMoves == {<<0, 1>>, <<0, -1>>, <<1, 0>>, <<-1, 0>>}

KnownKeys == ArrowKeys \cup {" ", "r"}

Placed(m, p, hs) ==
  [cells |-> [y \in 0..(H - 1) |-> [x \in 0..(W - 1) |->
                <<m[y][x].t, m[y][x].exit, m[y][x].item>>]],
   spawn |-> p,
   hounds |-> hs]

\* C10: a session just created from a seed, at load or by restart, has
\* the map, spawn, exit, items and hounds of the session restart creates
\* from that seed
C10_SeedDecidesWorld ==
  last.res = "created"
    => Placed(map, player, hounds)
         = Placed(RestartWorlds[seed + 1].map, RestartWorlds[seed + 1].player,
                  RestartWorlds[seed + 1].hounds)

\* the Floor cells of a map, as <<x, y>>
Floors(m) == {c \in (DOMAIN m[0]) \X (DOMAIN m) : m[c[2]][c[1]].t = FLOOR}

\* seq with c added, if c is a Floor cell of m that seq does not hold yet
Joined(m, seq, c) ==
  IF /\ c[2] \in DOMAIN m /\ c[1] \in DOMAIN m[0] /\ m[c[2]][c[1]].t = FLOOR
     /\ \A i \in 1..Len(seq) : seq[i] # c
  THEN Append(seq, c) ELSE seq

\* a breadth-first walk over Floor cells: the cells found so far, in the
\* order found, and how many of them have had their neighbours looked at
floodStep(s) ==
  IF s.k > Len(s.seq) THEN s
  ELSE LET c == s.seq[s.k]
       IN  Bind(Joined(s.m, s.seq, <<c[1] + 1, c[2]>>), LAMBDA q1 :
           Bind(Joined(s.m, q1, <<c[1] - 1, c[2]>>), LAMBDA q2 :
           Bind(Joined(s.m, q2, <<c[1], c[2] + 1>>), LAMBDA q3 :
             [m |-> s.m, k |-> s.k + 1, seq |-> Joined(s.m, q3, <<c[1], c[2] - 1>>)])))

\* the Floor cells of m joined to start by a path of adjacent Floor cells
Flood(m, start) ==
  Bind(Iter(floodStep, [m |-> m, k |-> 1, seq |-> <<start>>], Cardinality(Floors(m))),
       LAMBDA s : {s.seq[i] : i \in 1..Len(s.seq)})

\* C11: in the map generateLayout and placeThings produce, every Floor
\* cell, of the maze or of a room, is joined to the spawn cell by a path of
\* axis-aligned adjacent Floor cells
C11_Connected ==
  gen.phase = "done" => Flood(map, <<player.x, player.y>>) = Floors(map)

\* a session has been placed on a map where a room was carved: two Floor
\* cells with even coordinates, which the maze never carves, side by side
C11_Witness ==
  /\ gen.phase = "done"
  /\ \E c \in Floors(map) :
       /\ (c[1] % 2) = 0 /\ (c[2] % 2) = 0
       /\ <<c[1] + 1, c[2] + 1>> \in Floors(map)
       /\ map[c[2] + 2][c[1] + 2].t = FLOOR

Cells(m) == (DOMAIN m[0]) \X (DOMAIN m)

Exits(m) == {c \in Cells(m) : m[c[2]][c[1]].exit}

\* C12: from placement on, in every state of the session, exactly one cell
\* is the exit, it is a Floor cell, and it holds no item
C12_SingleExit ==
  /\ Cardinality(Exits(map)) = 1
  /\ \A c \in Exits(map) : map[c[2]][c[1]].t = FLOOR /\ map[c[2]][c[1]].item = "null"

\* a session some turns after placement, with an almond water picked up
C12_Witness ==
  /\ turn > 1 /\ bottles > 0 /\ gameOver = "null" /\ last.op = "step"
  /\ Cardinality(Exits(map)) = 1

\* C13: in every state of a session the player is inside the grid, on a
\* Floor cell, and a step off the edge of the grid leaves the player's
\* coordinate as it was
C13_PlayerOnFloor ==
  /\ [](OnGrid(player) /\ map[player.y][player.x].t = FLOOR)
  /\ [][(Stepping /\ Playing /\ ~OnGrid(Asked)) => player' = player]_vars

\* the player stands on the last row or column after a step off the edge
C13_Witness ==
  /\ last.op = "step" /\ last.res = "moved" /\ turn > 0
  /\ ~(player.x + last.dx \in 0..(W - 1) /\ player.y + last.dy \in 0..(H - 1))

\* the in-bounds Floor cells one axis-aligned step from the hound h
Legal(m, h) ==
  {c \in {<<h.x + 1, h.y>>, <<h.x - 1, h.y>>, <<h.x, h.y + 1>>, <<h.x, h.y - 1>>} :
     /\ c[2] \in DOMAIN m /\ c[1] \in DOMAIN m[0]
     /\ m[c[2]][c[1]].t = FLOOR}

\* g is h after a pursuit step towards (tx, ty) as the claim has it
Pursued(m, h, g, tx, ty) ==
  IF Legal(m, h) = {} THEN g = h
  ELSE /\ <<g.x, g.y>> \in Legal(m, h)
       /\ g.cooldown = h.cooldown
       /\ \A c \in Legal(m, h) :
            Abs(g.x - tx) + Abs(g.y - ty) <= Abs(c[1] - tx) + Abs(c[2] - ty)

\* C14: a pursuit step puts the pursuer on an in-bounds Floor cell one
\* axis-aligned step away whose Manhattan distance to the target is least
\* among the in-bounds Floor 4-neighbours of where it was, and leaves it
\* where it was when it has no such neighbour
C14_GreedyStep ==
  [][last'.op = "stepHound" =>
       Pursued(map, hounds[1], hounds'[1], player.x, player.y)]_vars

\* the pursuer has moved although another legal neighbour of the cell it
\* left lies farther from the target than the one it took
C14_Witness ==
  /\ last.op = "stepHound" /\ last.res = "moved"
  /\ \E c \in Legal(map, [x |-> hounds[1].x - last.dx, y |-> hounds[1].y - last.dy]) :
       Abs(c[1] - player.x) + Abs(c[2] - player.y)
         > Abs(hounds[1].x - player.x) + Abs(hounds[1].y - player.y)

\* C15: in an accepted step that does not win, a pursuer whose cooldown is
\* above 0 has it lowered by exactly 1 and stays where it is; one whose
\* cooldown is 0 keeps cooldown 0 and either stays or takes a pursuit step,
\* which at distance 10 or more from the player's new cell is left to the
\* random check; and no input but a new session raises a cooldown or takes
\* it below 0
C15_Cooldown ==
  [][/\ Accepted =>
          /\ Len(hounds') = Len(hounds)
          /\ \A i \in 1..Len(hounds) :
               IF hounds[i].cooldown > 0
               THEN hounds'[i] = [hounds[i] EXCEPT !.cooldown = hounds[i].cooldown - 1]
               ELSE /\ hounds'[i].cooldown = 0
                    /\ \/ hounds'[i] = hounds[i]
                       \/ Pursued(map, hounds[i], hounds'[i], Target.x, Target.y)
     /\ ~NewSession =>
          /\ Len(hounds') = Len(hounds)
          /\ \A i \in 1..Len(hounds) :
               hounds'[i].cooldown \in 0..hounds[i].cooldown]_vars

\* after a step a pursuer with cooldown 0 is eleven or more cells from the
\* player: the step took the player away from it and it did not follow
C15_Witness ==
  /\ last.op = "step" /\ last.res = "moved" /\ gen = NoCall
  /\ \E i \in 1..Len(hounds) :
       /\ hounds[i].cooldown = 0
       /\ Abs(hounds[i].x - player.x) + Abs(hounds[i].y - player.y) = 11

C17_RestartIsFresh ==
  [][last'.op = "restart" =>
       /\ gameOver' = "null" /\ sanity' = 100 /\ bottles' = 0 /\ turn' = 0
       /\ player' \in {RestartWorlds[seed' + 1].player, MountWorlds[seed' + 1].player}]_vars

\* the cells of m that hold an item
Items(m) == {c \in Cells(m) : m[c[2]][c[1]].item # "null"}

\* the cells the hounds hs stand on
HoundCells(hs) == {<<hs[i].x, hs[i].y>> : i \in 1..Len(hs)}

\* C18: when placeThings has returned, the spawn cell, the cells given an
\* item and the hounds' cells are pairwise distinct Floor cells, none of them
\* is left in the pool the picks were taken from, the pool and the picks
\* account for every Floor cell (the picks were made without replacement),
\* and the exit is a Floor cell other than the spawn
C18_DistinctPicks ==
  gen.phase = "done" =>
    LET sp == <<player.x, player.y>>
        pool == {gen.floors[i] : i \in 1..Len(gen.floors)}
        spent == IF \E c \in Exits(map) : c \notin pool /\ c \notin HoundCells(hounds)
                 THEN 1 ELSE 0
    IN  /\ ({sp} \cup Items(map) \cup HoundCells(hounds)) \subseteq Floors(map)
        /\ sp \notin Items(map) /\ sp \notin HoundCells(hounds)
        /\ Items(map) \cap HoundCells(hounds) = {}
        /\ Cardinality(HoundCells(hounds)) = Len(hounds)
        /\ pool \cap ({sp} \cup Items(map) \cup HoundCells(hounds)) = {}
        /\ Cardinality(pool) = Len(gen.floors)
        /\ Cardinality(Floors(map))
             = Len(gen.floors) + 1 + Cardinality(Items(map)) + spent + Len(hounds)
        /\ \A c \in Exits(map) : c \in Floors(map) /\ c # sp

\* placeThings has returned after placing five items and a hound
C18_Witness ==
  /\ gen.phase = "done" /\ last.res = "created"
  /\ Cardinality(Items(map)) = 5 /\ Len(hounds) >= 1
  /\ Cardinality(Exits(map)) = 1

\* C19: while the session is in progress no hound stands on the player's
\* cell, in the state a session starts in and after every step and drink
C19_NoHoundOnPlayer ==
  gameOver = "null" => <<player.x, player.y>> \notin HoundCells(hounds)

\* a session still in progress after a step that left a hound, free to
\* move, on a cell next to the player
C19_Witness ==
  /\ gameOver = "null" /\ last.op = "step" /\ last.res = "moved" /\ gen = NoCall
  /\ \E i \in 1..Len(hounds) :
       /\ hounds[i].cooldown = 0
       /\ Abs(hounds[i].x - player.x) + Abs(hounds[i].y - player.y) = 1

\* C20: items are conserved within a session.  Every input that does not
\* create a session leaves the sum of the items on the grid, the bottles
\* held and the drinks taken as it was: a drink that succeeds takes one
\* bottle and leaves the grid alone, an accepted step onto a cell with an
\* item clears that cell and adds exactly one bottle, and every other input
\* changes neither the items on the grid nor the bottles
C20_ItemsConserved ==
  [][last'.res # "created" =>
       IF last'.op = "drink" /\ bottles > 0 /\ Playing
       THEN Items(map') = Items(map) /\ bottles' = bottles - 1
       ELSE IF /\ Stepping /\ Playing /\ map[Target.y][Target.x].t = FLOOR
               /\ <<Target.x, Target.y>> \in Items(map)
       THEN Items(map') = Items(map) \ {<<Target.x, Target.y>>} /\ bottles' = bottles + 1
       ELSE Items(map') = Items(map) /\ bottles' = bottles]_vars

\* a bottle picked up earlier has just been drunk while items remain on
\* the grid
C20_Witness ==
  /\ last.op = "drink" /\ last.res = "drank" /\ gen = NoCall
  /\ Items(map) # {} /\ turn > 0

\* the number of items placeThings gave the session that mount created
PlacedItems == Cardinality(Items(MountWorlds[seed + 1].map))

\* the drinks taken so far: the placed items neither on the grid nor held
Drinks == PlacedItems - Cardinality(Items(map)) - bottles

\* C21: a session cannot go on forever.  In every state turn is at most
\* 100 + 35 * N, N the number of items placed at the start, because turn
\* and sanity together never exceed 100 plus 35 for every drink taken (and
\* 1 for the step that wins), and every accepted step either raises turn or
\* ends the session in a loss
C21_TurnsBounded ==
  /\ [](/\ turn <= 100 + 35 * PlacedItems
        /\ Drinks \in 0..PlacedItems
        /\ turn + sanity <= 100 + 35 * Drinks + (IF gameOver = "win" THEN 1 ELSE 0))
  /\ [][(Stepping /\ Playing /\ map[Target.y][Target.x].t = FLOOR)
          => (turn' = turn + 1 \/ gameOver' = "dead")]_vars

\* sanity ran out after every item placed had been picked up and drunk,
\* later than the turn limits of the other specifications
C21_Witness ==
  /\ gameOver = "dead" /\ last.res = "depleted"
  /\ Drinks = PlacedItems /\ PlacedItems >= 4
  /\ turn > LongTurns

=============================================================================
